---- MODULE Spec2Model ----
(***************************************************************************)
(* Model of nivlink.raw.Raw: the blink pipeline of an eye-tracker          *)
(* recording (detect_blinks, correct_blinks).                              *)
(*                                                                         *)
(* Conventions.  Arrays are TLA+ sequences; the code's 0-based index k is  *)
(* element k+1 (operator At).  Blink rows hold 0-based sample indices, as  *)
(* in the code.  A float sample is an exact rational <<n, d>> with d > 0,  *)
(* or NaN == <<0, 0>>; comparisons with NaN are false and arithmetic with  *)
(* NaN gives NaN, as in IEEE-754.  Rounding of finite floats is not        *)
(* modelled.  Times are integer ticks (SamplePeriod ticks per sample), and *)
(* min_dist is given in the same ticks.                                    *)
(***************************************************************************)
EXTENDS Integers, Sequences, FiniteSets, TLC

VARIABLES
    data,        \* self.data: sequence of rows <<gaze_x, gaze_y, pupil>>
    times,       \* self.times
    self_blinks, \* self.blinks
    pc,          \* position of the caller / the running method
    blinks,      \* detect_blinks: the local array `blinks`
    i,           \* loop position (row of the blink array being processed)
    min_dist,    \* detect_blinks argument
    window,      \* detect_blinks / correct_blinks argument (samples)
    interp,      \* correct_blinks argument
    ret          \* value returned by detect_blinks (overwrite = False)

vars == <<data, times, self_blinks, pc, blinks, i, min_dist, window,
          interp, ret>>

---------------------------------------------------------------------------
(* Bounds of the model *)
MaxLen == 6          \* longest recording (samples)
MaxSamples == 4      \* longest recording given to correct_blinks
SamplePeriod == 2    \* ticks between two samples (1 / sfreq)
MaxBlinks == 2       \* longest stored blink list given to correct_blinks

(* Program constant: the search width is 10 windows *)
SearchFactor == 10

PupilValues == {0, 1, 2}

---------------------------------------------------------------------------
(* Float samples *)
NaN == <<0, 0>>
Num(n) == <<n, 1>>
IsNaN(v) == v[2] = 0

Abs(n) == IF n < 0 THEN -n ELSE n
Min2(a, b) == IF a < b THEN a ELSE b
Max2(a, b) == IF a > b THEN a ELSE b

RECURSIVE GCD(_, _)
GCD(a, b) == IF b = 0 THEN a ELSE GCD(b, a % b)

Norm(n, d) ==
    LET g == GCD(Abs(n), d) IN <<n \div g, d \div g>>

RAdd(a, b) ==
    IF IsNaN(a) \/ IsNaN(b) THEN NaN
    ELSE Norm(a[1] * b[2] + b[1] * a[2], a[2] * b[2])

RSub(a, b) ==
    IF IsNaN(a) \/ IsNaN(b) THEN NaN
    ELSE Norm(a[1] * b[2] - b[1] * a[2], a[2] * b[2])

\* a * p / q, for integers p and q > 0
RScale(a, p, q) ==
    IF IsNaN(a) THEN NaN ELSE Norm(a[1] * p, a[2] * q)

GE0(v) == ~IsNaN(v) /\ v[1] >= 0
LE0(v) == ~IsNaN(v) /\ v[1] <= 0
\* (variant: a missing sample counts as zero)
IsZeroOrMissing(v) == v[1] = 0
IsZero(v) == ~IsNaN(v) /\ v[1] = 0

---------------------------------------------------------------------------
(* Arrays *)
At(s, k) == s[k + 1]

\* Python / NumPy basic slicing s[start:stop]: the 0-based bounds actually used
SliceBound(n, k) == IF k < 0 THEN Max2(k + n, 0) ELSE Min2(k, n)
SliceLo(n, start, stop) == SliceBound(n, start)
SliceHi(n, start, stop) == Max2(SliceBound(n, start), SliceBound(n, stop))
\* the 0-based indices the slice s[start:stop] reads or writes
SliceIdx(n, start, stop) ==
    SliceLo(n, start, stop) .. (SliceHi(n, start, stop) - 1)
Slice(s, start, stop) ==
    LET lo == SliceLo(Len(s), start, stop)
        hi == SliceHi(Len(s), start, stop)
    IN  [k \in 1..(hi - lo) |-> s[lo + k]]

Reverse(s) == [k \in 1..Len(s) |-> s[Len(s) + 1 - k]]

\* np.diff
Diff(s) == [k \in 1..(Len(s) - 1) |-> RSub(s[k + 1], s[k])]

\* (variant: np.all in the place of np.any)
NpAll(b) == \A k \in 1..Len(b) : b[k]
\* np.any
NpAny(b) == \E k \in 1..Len(b) : b[k]

\* np.argmax of a non-empty boolean array: 0-based index of the first True,
\* and 0 when every entry is False
ArgMax(b) ==
    IF \E k \in 1..Len(b) : b[k]
    THEN (CHOOSE k \in 1..Len(b) : b[k] /\ \A m \in 1..(k - 1) : ~b[m]) - 1
    ELSE 0

SetMin(S) == CHOOSE x \in S : \A y \in S : x <= y
SetMax(S) == CHOOSE x \in S : \A y \in S : x >= y

Pupil(d) == [k \in 1..Len(d) |-> d[k][3]]

---------------------------------------------------------------------------
(* detect_blinks, STEP 1: label the runs of pupil == 0 *)

\* scipy.ndimage.label on a 1-d boolean array: every maximal run of True gets
\* the next label 1, 2, ... in scan order, False gets 0.  Labels of the first
\* n samples.
RECURSIVE LabelPrefix(_, _)
LabelPrefix(p, n) ==
    IF n = 0 THEN << >>
    ELSE LET prev == LabelPrefix(p, n - 1)
             used == SetMax({0} \cup {prev[k] : k \in 1..(n - 1)})
         IN  Append(prev,
                    IF ~IsZero(p[n]) THEN 0
                    ELSE IF n > 1 /\ prev[n - 1] # 0 THEN prev[n - 1]
                    ELSE used + 1)

Label(p) == LabelPrefix(p, Len(p))
NBlinks(p) == SetMax({0} \cup {Label(p)[k] : k \in 1..Len(p)})

\* measurements.minimum / maximum of np.arange over each label, column-stacked
IdentifyBlinks(p) ==
    LET lab == Label(p)
    IN  [l \in 1..NBlinks(p) |->
            << SetMin({k - 1 : k \in {m \in 1..Len(p) : lab[m] = l}}),
               SetMax({k - 1 : k \in {m \in 1..Len(p) : lab[m] = l}}) >>]

---------------------------------------------------------------------------
(* detect_blinks, STEP 2: merge blinks *)

\* (variant: <= in the place of <)
AdjacencyAtMost(b, t, md) ==
    [k \in 1..(Len(b) - 1) |-> At(t, b[k + 1][1]) - At(t, b[k][2]) <= md]
\* np.diff(self.times[blinks.flatten()])[1::2] < min_dist
Adjacency(b, t, md) ==
    [k \in 1..(Len(b) - 1) |-> At(t, b[k + 1][1]) - At(t, b[k][2]) < md]

\* (variant: the offset of row i is not updated before row i+1 is deleted)
MergeUpdateDeleteOnly(b, m) ==
    [k \in 1..(Len(b) - 1) |-> IF k <= m + 1 THEN b[k] ELSE b[k + 1]]
\* blinks[i,-1] = blinks[i+1,-1]; blinks = np.delete(blinks, i+1, axis=0)
\* (m is the 0-based row)
MergeUpdate(b, m) ==
    [k \in 1..(Len(b) - 1) |->
        IF k < m + 1 THEN b[k]
        ELSE IF k = m + 1 THEN <<b[k][1], b[k + 1][2]>>
        ELSE b[k + 1]]

---------------------------------------------------------------------------
(* detect_blinks, STEP 3: extend windows *)

RECURSIVE SumSeq(_)
SumSeq(s) == IF Len(s) = 0 THEN Num(0) ELSE RAdd(s[1], SumSeq(Tail(s)))

\* _moving_average: np.convolve(data_set, np.ones(window) / window, 'valid').
\* np.convolve raises ValueError when either array is empty, and swaps the
\* two arrays when the second is the longer one.
MovingAverage(d, w) ==
    IF w = 0 \/ Len(d) = 0 THEN [ok |-> FALSE, v |-> << >>]
    ELSE IF Len(d) >= w
    THEN [ok |-> TRUE,
          v  |-> [k \in 1..(Len(d) - w + 1) |->
                    RScale(SumSeq(SubSeq(d, k, k + w - 1)), 1, w)]]
    ELSE [ok |-> TRUE,
          v  |-> [k \in 1..(w - Len(d) + 1) |-> RScale(SumSeq(d), 1, w)]]

\* the pupil samples the onset search reads: self.data[onset-window*10:onset,-1]
OnsetSearch(p, onset, w) == Slice(p, onset - w * SearchFactor, onset)
\* the pupil samples the offset search reads: self.data[offset:offset+window*10:,-1]
OffsetSearch(p, offset, w) == Slice(p, offset, offset + w * SearchFactor)

\* np.diff(smooth)[::-1] of the onset search
OnsetDiff(p, onset, w) ==
    Reverse(Diff(MovingAverage(OnsetSearch(p, onset, w), w).v))
\* np.diff(smooth) of the offset search
OffsetDiff(p, offset, w) ==
    Diff(MovingAverage(OffsetSearch(p, offset, w), w).v)

\* np.diff(smooth)[::-1] >= 0
OnsetFlat(p, onset, w) ==
    LET df == OnsetDiff(p, onset, w) IN [k \in 1..Len(df) |-> GE0(df[k])]
\* np.diff(smooth) <= 0
OffsetFlat(p, offset, w) ==
    LET df == OffsetDiff(p, offset, w) IN [k \in 1..Len(df) |-> LE0(df[k])]

\* _moving_average or np.argmax (empty argument) raises ValueError
OnsetRaises(p, onset, w) ==
    \/ ~MovingAverage(OnsetSearch(p, onset, w), w).ok
    \/ Len(OnsetFlat(p, onset, w)) = 0
OffsetRaises(p, offset, w) ==
    \/ ~MovingAverage(OffsetSearch(p, offset, w), w).ok
    \/ Len(OffsetFlat(p, offset, w)) = 0

\* first_samp of the onset / the offset extension
OnsetFirstSamp(p, onset, w) == ArgMax(OnsetFlat(p, onset, w))
OffsetFirstSamp(p, offset, w) == ArgMax(OffsetFlat(p, offset, w))

---------------------------------------------------------------------------
(* The recording after construction *)

Samples == {Num(v) : v \in PupilValues} \cup {NaN}

\* gaze_x = the sample number, gaze_y = missing: the gaze columns only have
\* to be told apart from the pupil column
Row(k, v) == <<Num(k), NaN, v>>

\* the recording whose pupil column is p
Recording(p) == [k \in 1..Len(p) |-> Row(k, p[k])]

\* uniform sampling, starting at 0
TimeVector(n) == [k \in 1..n |-> (k - 1) * SamplePeriod]

MinDistChoices ==
    {-1, 0, 2 * SamplePeriod, 2 * SamplePeriod + 1, 3 * SamplePeriod}

WindowChoices == {0, 1, 2}

None == << >>

InitDetect ==
    /\ \E n \in 0..MaxLen : \E p \in [1..n -> Samples] : data = Recording(p)
    /\ times = TimeVector(Len(data))
    /\ self_blinks = << >>
    /\ pc = "ready"
    /\ blinks = << >>
    /\ i = 0
    /\ min_dist = 0
    /\ window = 0
    /\ interp = "nan"
    /\ ret = None

---------------------------------------------------------------------------
(* detect_blinks.  window is a number of samples (an int argument); the   *)
(* conversion of a float window through info['sfreq'] is not modelled.     *)

\* entry, the assertions and STEP 1
DetectBlinks(md, w) ==
    /\ pc = "ready"
    /\ min_dist' = md
    /\ window' = w
    /\ IF md >= 0
       THEN /\ blinks' = IdentifyBlinks(Pupil(data))
            /\ pc' = "merge"
       ELSE /\ pc' = "raised"
            /\ UNCHANGED blinks
    /\ UNCHANGED <<data, times, self_blinks, i, interp, ret>>

\* one iteration of the `while True` loop of STEP 2
MergeBlinks ==
    /\ pc = "merge"
    /\ LET adjacency == Adjacency(blinks, times, min_dist)
       IN  IF ~NpAny(adjacency)
           THEN /\ pc' = "extend"
                /\ i' = 0
                /\ UNCHANGED blinks
           ELSE /\ blinks' = MergeUpdate(blinks, ArgMax(adjacency))
                /\ UNCHANGED <<pc, i>>
    /\ UNCHANGED <<data, times, self_blinks, min_dist, window, interp, ret>>

\* one iteration of the `for` loop of STEP 3
ExtendWindows ==
    /\ pc = "extend"
    /\ i < Len(blinks)
    /\ LET onset  == blinks[i + 1][1]
           offset == blinks[i + 1][2]
           p      == Pupil(data)
       IN  IF OnsetRaises(p, onset, window) \/ OffsetRaises(p, offset, window)
           THEN /\ pc' = "raised"
                /\ UNCHANGED <<blinks, i>>
           ELSE /\ blinks' = [blinks EXCEPT ![i + 1] =
                                <<onset - OnsetFirstSamp(p, onset, window),
                                  offset + OffsetFirstSamp(p, offset, window)>>]
                /\ i' = i + 1
                /\ UNCHANGED pc
    /\ UNCHANGED <<data, times, self_blinks, min_dist, window, interp, ret>>

\* lines after the loop: store or return the blinks.  The argument
\* `overwrite` is read here only, so its value is drawn here.
DetectReturn(overwrite) ==
    /\ pc = "extend"
    /\ i = Len(blinks)
    /\ pc' = "done"
    /\ IF overwrite
       THEN /\ self_blinks' = blinks
            /\ UNCHANGED ret
       ELSE /\ ret' = <<blinks>>
            /\ UNCHANGED self_blinks
    /\ UNCHANGED <<data, times, blinks, i, min_dist, window, interp>>

NextDetect ==
    \/ \E md \in MinDistChoices, w \in WindowChoices : DetectBlinks(md, w)
    \/ MergeBlinks
    \/ ExtendWindows
    \/ \E overwrite \in BOOLEAN : DetectReturn(overwrite)

SpecDetect == InitDetect /\ [][NextDetect]_vars

---------------------------------------------------------------------------
(* correct_blinks.  The library calls are modelled by what they do:        *)
(* boolean indexing with a mask of another length raises IndexError;       *)
(* interp1d raises ValueError below the least number of entries of the     *)
(* kind, and its interpolant raises ValueError outside the range of its    *)
(* entries (bounds_error); 'nearest' takes the lower entry at a tie and    *)
(* 'zero' holds the previous entry.                                        *)

\* the samples `self.data[i:j,-1] = np.nan` writes
MaskIdx(n, lo, hi) == SliceIdx(n, lo, hi)

\* the samples `self.data[i:j,-1]` reads and writes after i, j = i - window,
\* j + window
WindowIdx(n, lo, hi, w) == SliceIdx(n, lo - w, hi + w)

\* (variant: the whole rows are set to NaN, not the pupil column alone)
MaskRows(d, S) ==
    [k \in 1..Len(d) |-> IF k - 1 \in S THEN <<NaN, NaN, NaN>> ELSE d[k]]
\* the pupil column of d with NaN at the 0-based indices in S
MaskPupil(d, S) ==
    [k \in 1..Len(d) |->
        IF k - 1 \in S THEN <<d[k][1], d[k][2], NaN>> ELSE d[k]]

\* x[mask]: the positions of y that hold a number
Anchors(y) == {x \in 0..(Len(y) - 1) : ~IsNaN(y[x + 1])}

\* interp1d: the least number of entries each kind accepts
MinEntries(kind) ==
    CASE kind = "linear"  -> 2
      [] kind = "nearest" -> 2
      [] kind = "zero"    -> 1

\* `x[mask]` raises IndexError when y (cut short by the slice) and
\* x = np.arange(j - i) differ in length
MaskMismatch(y, width) == Len(y) # width

\* interp1d raises ValueError: too few entries for the kind
TooFewEntries(y, kind) == Cardinality(Anchors(y)) < MinEntries(kind)

\* f(x) raises ValueError (bounds_error): a position of x lies below the
\* first or above the last entry
OutOfRange(y) ==
    \E x \in 0..(Len(y) - 1) :
        \/ \A a \in Anchors(y) : a > x
        \/ \A a \in Anchors(y) : a < x

InterpRaises(y, width, kind) ==
    \/ MaskMismatch(y, width)
    \/ TooFewEntries(y, kind)
    \/ OutOfRange(y)

\* f(x) at position x, which lies between two entries
InterpAt(y, kind, x) ==
    LET lo == SetMax({a \in Anchors(y) : a <= x})
        hi == SetMin({a \in Anchors(y) : a >= x})
    IN  IF lo = hi THEN y[lo + 1]
        ELSE CASE kind = "linear" ->
                    RAdd(y[lo + 1],
                         RScale(RSub(y[hi + 1], y[lo + 1]), x - lo, hi - lo))
               [] kind = "nearest" ->
                    IF 2 * x <= lo + hi THEN y[lo + 1] ELSE y[hi + 1]
               [] kind = "zero" -> y[lo + 1]

\* self.data[i:j,-1] = f(x), the slice starting at 0-based index lo
WritePupil(d, lo, y, kind) ==
    [k \in 1..Len(d) |->
        IF k - 1 >= lo /\ k - 1 < lo + Len(y)
        THEN <<d[k][1], d[k][2], InterpAt(y, kind, k - 1 - lo)>>
        ELSE d[k]]

CorrectSamples == {Num(0), Num(1), NaN}

Intervals(n) == {r \in (0..(n - 1)) \X (0..(n - 1)) : r[1] <= r[2]}

\* stored blink lists: sorted, each interval ending before the next starts
BlinkLists(n) ==
    UNION {{b \in [1..m -> Intervals(n)] :
                \A k \in 1..(m - 1) : b[k][2] < b[k + 1][1]} :
           m \in 0..MaxBlinks}

InterpKinds == {"nan", "linear", "nearest", "zero"}

InitCorrect ==
    /\ \E n \in 0..MaxSamples :
         \E p \in [1..n -> CorrectSamples] : data = Recording(p)
    /\ times = TimeVector(Len(data))
    /\ self_blinks \in BlinkLists(Len(data))
    /\ pc = "ready"
    /\ blinks = << >>
    /\ i = 0
    /\ min_dist = 0
    /\ window = 0
    /\ interp = "nan"
    /\ ret = None

\* entry: the window and the deepcopy of self.blinks the loop runs over
CorrectBlinks(kind, w) ==
    /\ pc = "ready"
    /\ interp' = kind
    /\ window' = IF kind = "nan" THEN 0 ELSE w
    /\ blinks' = self_blinks
    /\ i' = 0
    /\ pc' = "correct"
    /\ UNCHANGED <<data, times, self_blinks, min_dist, ret>>

\* one iteration of the `for i, j in deepcopy(self.blinks)` loop
CorrectBlink ==
    /\ pc = "correct"
    /\ i < Len(blinks)
    /\ LET n      == Len(data)
           lo     == blinks[i + 1][1]
           hi     == blinks[i + 1][2]
           masked == MaskPupil(data, MaskIdx(n, lo, hi))
           y      == Slice(Pupil(masked), lo - window, hi + window)
           width  == (hi + window) - (lo - window)
       IN  IF interp = "nan"
           THEN /\ data' = masked
                /\ i' = i + 1
                /\ UNCHANGED pc
           ELSE IF InterpRaises(y, width, interp)
           THEN /\ data' = masked
                /\ pc' = "raised"
                /\ UNCHANGED i
           ELSE /\ data' = WritePupil(masked,
                                      SetMin(WindowIdx(n, lo, hi, window)),
                                      y, interp)
                /\ i' = i + 1
                /\ UNCHANGED pc
    /\ UNCHANGED <<times, self_blinks, blinks, min_dist, window, interp, ret>>

\* the loop is over
CorrectReturn ==
    /\ pc = "correct"
    /\ i = Len(blinks)
    /\ pc' = "done"
    /\ UNCHANGED <<data, times, self_blinks, blinks, i, min_dist, window,
                   interp, ret>>

NextCorrect ==
    \/ \E kind \in InterpKinds, w \in WindowChoices : CorrectBlinks(kind, w)
    \/ CorrectBlink
    \/ CorrectReturn

SpecCorrect == InitCorrect /\ [][NextCorrect]_vars

---------------------------------------------------------------------------
(* Reference definitions for the properties of detect_blinks *)

NSamples == Len(data)
ZeroSample(k) == data[k + 1][3] = <<0, 1>>

\* the maximal runs of zero samples, as pairs <<first index, last index>>
ZeroRuns ==
    {r \in (0..(NSamples - 1)) \X (0..(NSamples - 1)) :
        /\ r[1] <= r[2]
        /\ \A k \in r[1]..r[2] : ZeroSample(k)
        /\ r[1] = 0 \/ ~ZeroSample(r[1] - 1)
        /\ r[2] = NSamples - 1 \/ ~ZeroSample(r[2] + 1)}

\* each interval ends strictly before the next one starts
Ascending(b) == \A k \in 1..(Len(b) - 1) : b[k][2] < b[k + 1][1]

\* the sequence b lists the set S of intervals, in ascending order
ListsExactly(b, S) ==
    /\ Len(b) = Cardinality(S)
    /\ {b[k] : k \in 1..Len(b)} = S
    /\ Ascending(b)

\* the intervals of S, which do not overlap, by ascending onset
RECURSIVE InOrder(_)
InOrder(S) ==
    IF S = {} THEN << >>
    ELSE LET r == CHOOSE x \in S : \A y \in S : x[1] <= y[1]
         IN  <<r>> \o InOrder(S \ {r})

Candidates == InOrder(ZeroRuns)

\* time from the offset of interval k to the onset of interval k + 1
Gap(b, k) == times[b[k + 1][1] + 1] - times[b[k][2] + 1]

\* the maximal chains a..b of candidates whose successive gaps are all
\* below min_dist
Chains(c) ==
    {g \in (1..Len(c)) \X (1..Len(c)) :
        /\ g[1] <= g[2]
        /\ \A k \in g[1]..(g[2] - 1) : Gap(c, k) < min_dist
        /\ g[1] = 1 \/ ~(Gap(c, g[1] - 1) < min_dist)
        /\ g[2] = Len(c) \/ ~(Gap(c, g[2]) < min_dist)}

MergedRuns(c) == {<<c[g[1]][1], c[g[2]][2]>> : g \in Chains(c)}

\* rows k and k + 1 of b made one row, the other rows kept in order
MergedAt(b, k) ==
    [m \in 1..(Len(b) - 1) |->
        IF m < k THEN b[m]
        ELSE IF m = k THEN <<b[k][1], b[k + 1][2]>>
        ELSE b[m + 1]]

Violating(b) == {k \in 1..(Len(b) - 1) : Gap(b, k) < min_dist}

\* the merge pass as specified, run on the list b
RECURSIVE RerunMerge(_)
RerunMerge(b) ==
    IF Violating(b) = {} THEN b
    ELSE RerunMerge(MergedAt(b, SetMin(Violating(b))))

\* the merge loop has just exited; no window is extended yet
MergeDone == pc = "extend" /\ i = 0

\* what a completed detect_blinks stored or returned
Result == IF ret = None THEN self_blinks ELSE ret[1]

---------------------------------------------------------------------------
(* Properties of detect_blinks *)

\* C1: after the merge pass, two adjacent candidates lie in the same
\* interval exactly when the time from the first one's offset to the next
\* one's onset is strictly below min_dist; every output interval runs from
\* the onset of the first candidate of its chain to the offset of the last.
C1_MergeGroups ==
    MergeDone => LET c == Candidates IN ListsExactly(blinks, MergedRuns(c))

\* three candidates, the first two merged, the third one kept apart at a gap
\* equal to min_dist
C1_Witness ==
    /\ MergeDone
    /\ Len(blinks) = 2
    /\ LET c == Candidates
       IN  /\ Len(c) = 3
           /\ blinks[1] = <<c[1][1], c[2][2]>>
           /\ Gap(c, 2) = min_dist

\* C2: STEP 1 lists exactly the maximal runs of zero samples, in ascending
\* order, one pair <<first index, last index>> per run (none when no sample
\* is zero).
C2_Candidates ==
    [][pc = "ready" /\ pc' = "merge" => ListsExactly(blinks', ZeroRuns)]_vars

\* a run of one sample and a longer run, both listed
C2_Witness ==
    /\ pc = "merge"
    /\ min_dist = 0
    /\ Len(blinks) = 2
    /\ blinks[1][1] = blinks[1][2]
    /\ blinks[2][1] + 1 < blinks[2][2]

\* C3: the list a completed detect_blinks stores or returns is sorted by
\* onset without overlap: each offset is strictly below the next onset.
C3_NoOverlap ==
    pc = "done" => Ascending(Result)

\* C7: running the merge pass again on the list the merge pass produced
\* returns that list unchanged.
C7_MergeIdempotent ==
    MergeDone => RerunMerge(blinks) = blinks

\* a merge took place and two intervals remain
C7_Witness ==
    /\ MergeDone
    /\ Len(blinks) = 2
    /\ min_dist = 2 * SamplePeriod + 1
    /\ Cardinality(ZeroRuns) > Len(blinks)

\* C8: the onset search reads the samples [max(0, onset - 10 * window),
\* onset), so a window starting before the recording is clamped to its
\* start, and the offset search reads samples of [0, N) only.
C8_SearchClamped ==
    (pc = "extend" /\ i < Len(blinks)) =>
        /\ SliceIdx(NSamples, blinks[i + 1][1] - window * SearchFactor,
                    blinks[i + 1][1])
             = Max2(0, blinks[i + 1][1] - window * SearchFactor)
                 .. (blinks[i + 1][1] - 1)
        /\ SliceIdx(NSamples, blinks[i + 1][2],
                    blinks[i + 1][2] + window * SearchFactor)
             \subseteq 0..(NSamples - 1)

\* C9: when the smoothed signal falls strictly at every step toward the
\* onset (no entry of the reversed difference is >= 0) the onset is lowered
\* by the search width minus one, the index of the last entry; and when it
\* rises strictly at every step after the offset (no entry of the forward
\* difference is <= 0) the offset is raised by it.
C9_FullWidth ==
    [][(pc = "extend" /\ pc' = "extend" /\ i' = i + 1) =>
        LET onset  == blinks[i + 1][1]
            offset == blinks[i + 1][2]
            on     == OnsetDiff(Pupil(data), onset, window)
            off    == OffsetDiff(Pupil(data), offset, window)
        IN  /\ (\A k \in 1..Len(on) : on[k][2] > 0 /\ on[k][1] < 0) =>
                   blinks'[i + 1][1] = onset - (Len(on) - 1)
            /\ (\A k \in 1..Len(off) : off[k][2] > 0 /\ off[k][1] > 0) =>
                   blinks'[i + 1][2] = offset + (Len(off) - 1)]_vars

\* C10: every iteration of the merge loop that does not exit merges the
\* leftmost adjacent pair whose gap is below min_dist and removes exactly
\* that one row, keeping the order of the others; the loop exits only when
\* no adjacent pair has a gap below min_dist.  The loop terminates: an
\* iteration can always be taken, each one that does not exit shortens the
\* list by one row, and a list of n candidates never gets shorter than one
\* row, so there are at most n - 1 merges.
C10_MergeLoop ==
    /\ [][(pc = "merge" /\ pc' = "merge") =>
            /\ Violating(blinks) # {}
            /\ blinks' = MergedAt(blinks, SetMin(Violating(blinks)))
            /\ Len(blinks') = Len(blinks) - 1]_vars
    /\ [][(pc = "merge" /\ pc' # "merge") =>
            /\ Violating(blinks) = {}
            /\ blinks' = blinks
            /\ pc' = "extend"]_vars
    /\ [](pc = "merge" =>
            /\ ENABLED MergeBlinks
            /\ Len(blinks) <= Cardinality(ZeroRuns)
            /\ (Cardinality(ZeroRuns) >= 1 => Len(blinks) >= 1))

\* the loop is at its third iteration: two merges were done
C10_Witness ==
    /\ pc = "merge"
    /\ Len(blinks) = 1
    /\ Cardinality(ZeroRuns) = 3

---------------------------------------------------------------------------
(* Properties of correct_blinks *)

\* the window of a call: 0 with interp = 'nan'
CallWindow == IF interp = "nan" THEN 0 ELSE window

\* sample k lies in the widened window of some blink of the stored list
InWidened(k) ==
    \E m \in 1..Len(self_blinks) :
        /\ self_blinks[m][1] - CallWindow <= k
        /\ k <= self_blinks[m][2] + CallWindow

\* C4: after correct_blinks with interp = 'nan', every pupil sample k with
\* i <= k <= j, both ends included, of every blink [i, j] is NaN.
C4_MaskedInclusive ==
    (pc = "done" /\ interp = "nan") =>
        \A m \in 1..Len(self_blinks) :
            \A k \in self_blinks[m][1]..self_blinks[m][2] :
                data[k + 1][3] = NaN

\* C5: no step of correct_blinks changes a pupil sample outside the widened
\* windows [i - window, j + window] of the blink list, a gaze sample, the
\* number of samples or the blink list.
C5_Frame ==
    [][pc' \in {"correct", "raised", "done"} =>
        /\ self_blinks' = self_blinks
        /\ Len(data') = Len(data)
        /\ \A k \in 1..Len(data) :
            /\ data'[k][1] = data[k][1]
            /\ data'[k][2] = data[k][2]
            /\ data'[k][3] # data[k][3] => InWidened(k - 1)']_vars

\* two blinks were interpolated, and a fitted value lies between two samples
C5_Witness ==
    /\ pc = "done"
    /\ interp = "linear"
    /\ window = 1
    /\ Len(self_blinks) = 2
    /\ \E k \in 1..Len(data) : data[k][3][2] > 1

\* C6: when the interpolation of a blink fails for want of non-NaN anchor
\* samples in its widened window, the pupil samples are as they were before
\* that blink was processed.
C6_FailureRestores ==
    [][(pc = "correct" /\ pc' = "raised"
          /\ Cardinality(
               {k \in WindowIdx(Len(data), blinks[i + 1][1], blinks[i + 1][2],
                                window) : ~IsNaN(data'[k + 1][3])})
               < MinEntries(interp))
        => data' = data]_vars

====
